---- MODULE Spec2Model ----
(***************************************************************************)
(* Model of the texture-atlas packer of                                    *)
(* amulet_renderer/textureatlas.py: Packable, PackRegion, Texture,         *)
(* TextureAtlas and the create_atlas driver.                               *)
(*                                                                         *)
(* Objects are modelled by their index in the collection that owns them:   *)
(* a Frame is an index into `frames`, a PackRegion an index into the       *)
(* `regions` arena of its atlas (the root is region 1), None is 0.         *)
(* A float quotient a/b is kept as the pair <<a, b>>.                      *)
(*                                                                         *)
(* The block-name list of ui/block_select/block.py (BlockSelect) is a      *)
(* second machine, BlockSpec, over its own variables: a str is the         *)
(* sequence of its characters, a list index counts from 0 as in Python.    *)
(***************************************************************************)
EXTENDS Integers, Sequences, FiniteSets

\* ------------------------------------------------------------- bounds
MaxTex  == 3    \* most entries of texture_dict
MaxPaths == 2   \* most different paths among them
MaxDim  == 3    \* largest image width / height
RMaxRect == 3   \* most packables offered to a free-standing PackRegion
RMaxDim  == 2   \* their largest width / height
RMaxSide == 2   \* largest width / height of a free-standing PackRegion
MaxNames == 2   \* most block names of a namespace
MaxStr   == 2   \* longest block name / search string

None == 0

VARIABLES
    pc,             \* position in create_atlas, or "region" for a free-standing PackRegion
    files,          \* path -> size of the image Image.open(path) decodes
    texture_dict,   \* the input mapping, in insertion order: <<[key, path], ...>>
    frames,         \* every Packable built so far: [x, y, width, height]
    textures,       \* create_atlas's local list of Texture(name, frames)
    size,           \* create_atlas's local size
    atlas,          \* the current TextureAtlas: [regions, textures]
    atlas_created,  \* create_atlas's local flag
    idx,            \* position of `for texture in textures` (line 278)
    log,            \* what log.info has recorded
    returned,       \* what create_atlas returned
    tried,          \* region mode: packables already handed to pack
    ret,            \* region mode: <<packable, value>> of the last pack call
    assigned,       \* history: how often the x, y setters ran for each Packable
    block_names,    \* BlockSelect._block_names
    items,          \* the strings of _block_list_box
    selection,      \* _block_list_box.GetSelection(), from 0, or NOT_FOUND
    search,         \* the text of _block_search
    update_ret,     \* what the last call of _update_block_name returned
    posted,         \* whether the last handler posted a block-change event
    event           \* the last handler that ran

atlasVars == <<pc, files, texture_dict, frames, textures, size, atlas,
               atlas_created, idx, log, returned, tried, ret, assigned>>

blockVars == <<block_names, items, selection, search, update_ret, posted, event>>

vars == <<atlasVars, blockVars>>

\* wx.NOT_FOUND
NOT_FOUND == 0 - 1

\* no BlockSelect exists
NoBlockSelect ==
    /\ block_names = <<>>
    /\ items = <<>>
    /\ selection = NOT_FOUND
    /\ search = <<>>
    /\ update_ret = FALSE
    /\ posted = FALSE
    /\ event = "none"

\* ------------------------------------------------------------- helpers
Max2(a, b) == IF a >= b THEN a ELSE b
Min2(a, b) == IF a <= b THEN a ELSE b

RECURSIVE Pow2(_)
Pow2(n) == IF n <= 0 THEN 1 ELSE 2 * Pow2(n - 1)

\* int.bit_length(): bits of |n|
RECURSIVE BitLength(_)
BitLength(n) ==
    IF n < 0 THEN BitLength(0 - n)
    ELSE IF n = 0 THEN 0 ELSE 1 + BitLength(n \div 2)

\* math.ceil(pixels ** 0.5)
RECURSIVE CeilSqrtFrom(_, _)
CeilSqrtFrom(n, r) == IF r * r >= n THEN r ELSE CeilSqrtFrom(n, r + 1)
CeilSqrt(n) == CeilSqrtFrom(n, 0)

\* ------------------------------------------------------------- Packable
Packable(width, height) == [x |-> 0, y |-> 0, width |-> width, height |-> height]

Perimeter(p) == 2 * p.width + 2 * p.height

\* ------------------------------------------------------------- PackRegion
PackRegion(x, y, width, height) ==
    [x |-> x, y |-> y, width |-> width, height |-> height,
     sub1 |-> None, sub2 |-> None, packable |-> None]

\* mutant: the room test asks for both sides to be too large
NoRoomBoth(region, packable) ==
    (packable.width > region.width) /\ (packable.height > region.height)

\* line 122-123: is there room to pack this?
NoRoom(region, packable) ==
    (packable.width > region.width) \/ (packable.height > region.height)

\* mutant: sub2 starts at the region's own x instead of right of the packable
PlaceSub2AtX(rs, fs, r, p) ==
    LET n == Len(rs)
        me == rs[r]
        pk == fs[p]
    IN [ret |-> TRUE,
        regions |->
            [rs EXCEPT ![r].packable = p, ![r].sub1 = n + 1, ![r].sub2 = n + 2]
            \o << PackRegion(me.x, me.y + pk.height,
                             pk.width, me.height - pk.height),
                  PackRegion(me.x, me.y,
                             me.width - pk.width, me.height) >>,
        frames |-> [fs EXCEPT ![p].x = me.x, ![p].y = me.y]]

\* mutant: sub1 takes the whole width of the region
PlaceSub1FullWidth(rs, fs, r, p) ==
    LET n == Len(rs)
        me == rs[r]
        pk == fs[p]
    IN [ret |-> TRUE,
        regions |->
            [rs EXCEPT ![r].packable = p, ![r].sub1 = n + 1, ![r].sub2 = n + 2]
            \o << PackRegion(me.x, me.y + pk.height,
                             me.width, me.height - pk.height),
                  PackRegion(me.x + pk.width, me.y,
                             me.width - pk.width, me.height) >>,
        frames |-> [fs EXCEPT ![p].x = me.x, ![p].y = me.y]]

\* mutant: sub2 is only as high as what is left below the packable
PlaceSub2Short(rs, fs, r, p) ==
    LET n == Len(rs)
        me == rs[r]
        pk == fs[p]
    IN [ret |-> TRUE,
        regions |->
            [rs EXCEPT ![r].packable = p, ![r].sub1 = n + 1, ![r].sub2 = n + 2]
            \o << PackRegion(me.x, me.y + pk.height,
                             pk.width, me.height - pk.height),
                  PackRegion(me.x + pk.width, me.y,
                             me.width - pk.width, me.height - pk.height) >>,
        frames |-> [fs EXCEPT ![p].x = me.x, ![p].y = me.y]]

\* lines 126-142: occupy region r with packable p and split the rest
Place(rs, fs, r, p) ==
    LET n == Len(rs)
        me == rs[r]
        pk == fs[p]
    IN [ret |-> TRUE,
        regions |->
            [rs EXCEPT ![r].packable = p, ![r].sub1 = n + 1, ![r].sub2 = n + 2]
            \o << PackRegion(me.x, me.y + pk.height,
                             pk.width, me.height - pk.height),
                  PackRegion(me.x + pk.width, me.y,
                             me.width - pk.width, me.height) >>,
        frames |-> [fs EXCEPT ![p].x = me.x, ![p].y = me.y]]

\* mutant: both children are tried, whatever sub1 answered
RECURSIVE PackBothSubs(_, _, _, _)
PackBothSubs(rs, fs, r, p) ==
    IF rs[r].packable = None
    THEN IF NoRoom(rs[r], fs[p])
         THEN [ret |-> FALSE, regions |-> rs, frames |-> fs]
         ELSE Place(rs, fs, r, p)
    ELSE LET a == PackBothSubs(rs, fs, rs[r].sub1, p)
             b == PackBothSubs(a.regions, a.frames, rs[r].sub2, p)
         IN [ret |-> a.ret \/ b.ret, regions |-> b.regions, frames |-> b.frames]

\* mutant: the occupied test is missing where the packable fits
RECURSIVE PackOverwrites(_, _, _, _)
PackOverwrites(rs, fs, r, p) ==
    IF ~NoRoom(rs[r], fs[p])
    THEN Place(rs, fs, r, p)
    ELSE IF rs[r].packable = None
         THEN [ret |-> FALSE, regions |-> rs, frames |-> fs]
         ELSE LET a == PackOverwrites(rs, fs, rs[r].sub1, p)
              IN IF a.ret THEN a
                 ELSE PackOverwrites(a.regions, a.frames, rs[r].sub2, p)

\* mutant: sub2 is tried before sub1
RECURSIVE PackSub2First(_, _, _, _)
PackSub2First(rs, fs, r, p) ==
    IF rs[r].packable = None
    THEN IF NoRoom(rs[r], fs[p])
         THEN [ret |-> FALSE, regions |-> rs, frames |-> fs]
         ELSE Place(rs, fs, r, p)
    ELSE LET a == PackSub2First(rs, fs, rs[r].sub2, p)
         IN IF a.ret THEN a
            ELSE PackSub2First(a.regions, a.frames, rs[r].sub1, p)

\* mutant: x, y are set on the packable before the room test
RECURSIVE PackSetsFirst(_, _, _, _)
PackSetsFirst(rs, fs, r, p) ==
    IF rs[r].packable = None
    THEN IF NoRoom(rs[r], fs[p])
         THEN [ret |-> FALSE, regions |-> rs,
               frames |-> [fs EXCEPT ![p].x = rs[r].x, ![p].y = rs[r].y]]
         ELSE Place(rs, fs, r, p)
    ELSE LET a == PackSetsFirst(rs, fs, rs[r].sub1, p)
         IN IF a.ret THEN a
            ELSE PackSetsFirst(a.regions, a.frames, rs[r].sub2, p)

RECURSIVE PackRegion_pack(_, _, _, _)
PackRegion_pack(rs, fs, r, p) ==
    IF rs[r].packable = None
    THEN IF NoRoom(rs[r], fs[p])
         THEN [ret |-> FALSE, regions |-> rs, frames |-> fs]
         ELSE Place(rs, fs, r, p)
    ELSE LET a == PackRegion_pack(rs, fs, rs[r].sub1, p)
         IN IF a.ret THEN a
            ELSE PackRegion_pack(a.regions, a.frames, rs[r].sub2, p)

\* mutant: the packables of sub2 are listed before those of sub1
RECURSIVE GetAllSub2First(_, _)
GetAllSub2First(rs, r) ==
    IF rs[r].packable # None
    THEN <<rs[r].packable>> \o GetAllSub2First(rs, rs[r].sub2)
                            \o GetAllSub2First(rs, rs[r].sub1)
    ELSE <<>>

RECURSIVE get_all_packables(_, _)
get_all_packables(rs, r) ==
    IF rs[r].packable # None
    THEN <<rs[r].packable>> \o get_all_packables(rs, rs[r].sub1)
                            \o get_all_packables(rs, rs[r].sub2)
    ELSE <<>>

\* ------------------------------------------------------------- Texture, TextureAtlas
Texture(name, fr) == [name |-> name, frames |-> fr]

TextureAtlas(width, height) ==
    [regions |-> <<PackRegion(0, 0, width, height)>>, textures |-> <<>>]

NoAtlas == [regions |-> <<>>, textures |-> <<>>]

\* lines 199-201: the frames of a texture, in order, until one does not fit
RECURSIVE PackFrames(_, _, _, _)
PackFrames(rs, fs, fr, k) ==
    IF k > Len(fr)
    THEN [raised |-> FALSE, regions |-> rs, frames |-> fs]
    ELSE LET a == PackRegion_pack(rs, fs, 1, fr[k])
         IN IF ~a.ret
            THEN [raised |-> TRUE, regions |-> a.regions, frames |-> a.frames]
            ELSE PackFrames(a.regions, a.frames, fr, k + 1)

\* mutant: a frame that does not fit is passed over in silence
TextureAtlasPackQuiet(at, fs, texture) ==
    LET a == PackFrames(at.regions, fs, texture.frames, 1)
    IN [raised |-> FALSE,
        atlas  |-> [regions |-> a.regions,
                    textures |-> Append(at.textures, texture)],
        frames |-> a.frames]

\* TextureAtlas.pack: [raised, atlas, frames]
TextureAtlas_pack(at, fs, texture) ==
    LET a == PackFrames(at.regions, fs, texture.frames, 1)
    IN [raised |-> a.raised,
        atlas  |-> [regions |-> a.regions,
                    textures |-> Append(at.textures, texture)],
        frames |-> a.frames]

AtlasWidth(at)  == at.regions[1].width
AtlasHeight(at) == at.regions[1].height

\* the tuple to_dict builds for one texture (lines 205-210)
Bounds(at, fs, tex) ==
    LET f == fs[tex.frames[1]]
    IN << <<f.x, AtlasWidth(at)>>,
          <<f.y, AtlasHeight(at)>>,
          <<f.x + f.width, AtlasWidth(at)>>,
          <<f.y + Min2(f.height, f.width), AtlasHeight(at)>> >>

\* a dict comprehension over atlas.textures: a later texture of the same name
\* replaces the earlier entry
to_dict(at, fs) ==
    LET names == {at.textures[k].name : k \in 1..Len(at.textures)}
        last(nm) == CHOOSE k \in 1..Len(at.textures) :
                        /\ at.textures[k].name = nm
                        /\ \A j \in (k + 1)..Len(at.textures) : at.textures[j].name # nm
    IN [nm \in names |-> Bounds(at, fs, at.textures[last(nm)])]

\* ------------------------------------------------------------- create_atlas
\* lines 241-250: one single-frame Texture, named after its path, per value of
\* the mapping; the frame of entry k is frames[k]
ParseFrames(dict, fls) ==
    [k \in 1..Len(dict) |->
        Packable(fls[dict[k].path].width, fls[dict[k].path].height)]

\* mutant: a path the mapping gives twice becomes one Texture
ParseTexturesDedup(dict) ==
    LET firsts == {k \in 1..Len(dict) : \A j \in 1..(k - 1) : dict[j].path # dict[k].path}
        nth(i) == CHOOSE k \in firsts : Cardinality({j \in firsts : j < k}) = i - 1
    IN [i \in 1..Cardinality(firsts) |-> Texture(dict[nth(i)].path, <<nth(i)>>)]

ParseTextures(dict) ==
    [k \in 1..Len(dict) |-> Texture(dict[k].path, <<k>>)]

\* line 253: sorted(..., key=perimeter of frames[0], reverse=True); the sort is
\* stable, so textures of equal perimeter keep their order
SortKey(fs, tex) == Perimeter(fs[tex.frames[1]])

\* mutant: a texture goes ahead of the textures of equal perimeter
InsertSortedUnstable(fs, sorted, tex) ==
    LET ahead == Cardinality({k \in 1..Len(sorted) :
                                 SortKey(fs, sorted[k]) > SortKey(fs, tex)})
    IN SubSeq(sorted, 1, ahead) \o <<tex>> \o SubSeq(sorted, ahead + 1, Len(sorted))

InsertSorted(fs, sorted, tex) ==
    LET ahead == Cardinality({k \in 1..Len(sorted) :
                                 SortKey(fs, sorted[k]) >= SortKey(fs, tex)})
    IN SubSeq(sorted, 1, ahead) \o <<tex>> \o SubSeq(sorted, ahead + 1, Len(sorted))

RECURSIVE SortFirst(_, _, _)
SortFirst(fs, txs, n) ==
    IF n = 0 THEN <<>>
    ELSE InsertSorted(fs, SortFirst(fs, txs, n - 1), txs[n])

SortTextures(fs, txs) == SortFirst(fs, txs, Len(txs))

\* lines 255-262
RECURSIVE MaxHeight(_, _, _)
MaxHeight(fs, txs, n) ==
    IF n = 0 THEN 0
    ELSE Max2(fs[txs[n].frames[1]].height, MaxHeight(fs, txs, n - 1))

RECURSIVE MaxWidth(_, _, _)
MaxWidth(fs, txs, n) ==
    IF n = 0 THEN 0
    ELSE Max2(fs[txs[n].frames[1]].width, MaxWidth(fs, txs, n - 1))

RECURSIVE Pixels(_, _, _)
Pixels(fs, txs, n) ==
    IF n = 0 THEN 0
    ELSE fs[txs[n].frames[1]].height * fs[txs[n].frames[1]].width
         + Pixels(fs, txs, n - 1)

\* mutant: the side is the power of two alone, without the largest width and height
InitialSizeNoFloor(fs, txs) ==
    Pow2(BitLength(CeilSqrt(Pixels(fs, txs, Len(txs))) - 1))

\* mutant: bit_length of the root itself, not of the root minus one
InitialSizeNoMinusOne(fs, txs) ==
    Max2(MaxHeight(fs, txs, Len(txs)),
         Max2(MaxWidth(fs, txs, Len(txs)),
              Pow2(BitLength(CeilSqrt(Pixels(fs, txs, Len(txs)))))))

\* lines 264-268
InitialSize(fs, txs) ==
    Max2(MaxHeight(fs, txs, Len(txs)),
         Max2(MaxWidth(fs, txs, Len(txs)),
              Pow2(BitLength(CeilSqrt(Pixels(fs, txs, Len(txs))) - 1))))

\* mutant: the retry grows the side by a constant
NextSizePlus(s) == s + 2

\* line 283
NextSize(s) == s * 2

\* line 290
TextureBounds(dict, bounds) ==
    [key \in {dict[k].key : k \in 1..Len(dict)} |->
        bounds[(dict[CHOOSE k \in 1..Len(dict) : dict[k].key = key]).path]]

LogTry(s) == [msg |-> "try", size |-> s]
LogSmall  == [msg |-> "small", size |-> None]

\* lines 239, 285 and 292; the message of line 285 is no f-string and carries no size
LogCreating == [msg |-> "creating", size |-> None]
LogSuccess  == [msg |-> "success", size |-> None]
LogFinished == [msg |-> "finished", size |-> None]

NoReturn == [texture_bounds |-> <<>>, width |-> 0, height |-> 0]

\* ------------------------------------------------------------- initial states
\* paths are named 1, 2, ... in the order the mapping first mentions them
PathSeqs(k) ==
    {s \in [1..k -> 1..Min2(k, MaxPaths)] :
        \A j \in 1..k :
            \/ s[j] = 1
            \/ \E h \in 1..(j - 1) : s[h] = s[j] - 1}

Dicts == UNION {{[k \in 1..n |-> [key |-> k, path |-> s[k]]] : s \in PathSeqs(n)} :
                n \in 0..MaxTex}

PathsOf(dict) == {dict[k].path : k \in 1..Len(dict)}

InitDriver ==
    /\ pc = "start"
    /\ texture_dict \in Dicts
    /\ files \in [PathsOf(texture_dict) ->
                    [width : 1..MaxDim, height : 1..MaxDim]]
    /\ frames = <<>>
    /\ textures = <<>>
    /\ size = 0
    /\ atlas = NoAtlas
    /\ atlas_created = FALSE
    /\ idx = 0
    /\ log = <<>>
    /\ returned = NoReturn
    /\ tried = {}
    /\ ret = <<None, FALSE>>
    /\ assigned = [k \in DOMAIN frames |-> 0]
    /\ NoBlockSelect

\* a free-standing PackRegion and the packables that will be offered to it, listed
\* by non-decreasing (width, height)
RCode(p) == p.width * (RMaxDim + 1) + p.height

RPackables ==
    UNION {{s \in [1..n -> {Packable(w, h) : w \in 1..RMaxDim, h \in 1..RMaxDim}] :
               \A j \in 1..(n - 1) : RCode(s[j]) <= RCode(s[j + 1])} :
           n \in 0..RMaxRect}

InitRegion ==
    /\ pc = "region"
    /\ texture_dict = <<>>
    /\ files = <<>>
    /\ frames \in RPackables
    /\ textures = <<>>
    /\ size = 0
    /\ \E w \in 1..RMaxSide, h \in 1..RMaxSide :
           atlas = [regions |-> <<PackRegion(0, 0, w, h)>>, textures |-> <<>>]
    /\ atlas_created = FALSE
    /\ idx = 0
    /\ log = <<>>
    /\ returned = NoReturn
    /\ tried = {}
    /\ ret = <<None, FALSE>>
    /\ assigned = [k \in DOMAIN frames |-> 0]
    /\ NoBlockSelect

\* the mapping {"a": "a.png", "b": "b.png", "c": "c.png"} of three square images
\* of sides 64, 32 and 16
ScenarioDict == <<[key |-> 1, path |-> 1], [key |-> 2, path |-> 2], [key |-> 3, path |-> 3]>>

ScenarioFiles == <<[width |-> 64, height |-> 64], [width |-> 32, height |-> 32],
                   [width |-> 16, height |-> 16]>>

InitScenario ==
    /\ pc = "start"
    /\ texture_dict = ScenarioDict
    /\ files = ScenarioFiles
    /\ frames = <<>>
    /\ textures = <<>>
    /\ size = 0
    /\ atlas = NoAtlas
    /\ atlas_created = FALSE
    /\ idx = 0
    /\ log = <<>>
    /\ returned = NoReturn
    /\ tried = {}
    /\ ret = <<None, FALSE>>
    /\ assigned = <<>>
    /\ NoBlockSelect

Init == InitDriver \/ InitRegion \/ InitScenario

\* ------------------------------------------------------------- actions
\* how many regions of the arena rs hold packable p
HoldCount(rs, p) == Cardinality({r \in DOMAIN rs : rs[r].packable = p})

\* lines 130-131 run once for every region that takes a packable
Setters(count, before, after) ==
    [p \in DOMAIN count |-> count[p] + HoldCount(after, p) - HoldCount(before, p)]

\* lines 239-271
Start ==
    /\ pc = "start"
    /\ \E fs \in {ParseFrames(texture_dict, files)} :
         \E txs \in {SortTextures(fs, ParseTextures(texture_dict))} :
            /\ frames' = fs
            /\ textures' = txs
            /\ size' = InitialSize(fs, txs)
    /\ atlas_created' = FALSE
    /\ atlas' = NoAtlas
    /\ pc' = "loop"
    /\ assigned' = [k \in 1..Len(texture_dict) |-> 0]
    /\ log' = Append(log, LogCreating)
    /\ UNCHANGED <<files, texture_dict, idx, returned, tried, ret>>
    /\ UNCHANGED blockVars

\* lines 272-276
NewAtlas ==
    /\ pc = "loop"
    /\ ~atlas_created
    /\ log' = Append(log, LogTry(size))
    /\ atlas' = TextureAtlas(size, size)
    /\ idx' = 1
    /\ pc' = "pack"
    /\ UNCHANGED <<files, texture_dict, frames, textures, size, atlas_created,
                   returned, tried, ret, assigned>>
    /\ UNCHANGED blockVars

\* lines 278-279 and 281-283: one atlas.pack(texture), and the handler when it raises
PackTexture ==
    /\ pc = "pack"
    /\ idx <= Len(textures)
    /\ \E a \in {TextureAtlas_pack(atlas, frames, textures[idx])} :
          /\ atlas' = a.atlas
          /\ frames' = a.frames
          /\ assigned' = Setters(assigned, atlas.regions, a.atlas.regions)
          /\ IF a.raised
             THEN /\ log' = Append(log, LogSmall)
                  /\ size' = NextSize(size)
                  /\ pc' = "loop"
                  /\ idx' = idx
             ELSE /\ idx' = idx + 1
                  /\ UNCHANGED <<log, size, pc>>
    /\ UNCHANGED <<files, texture_dict, textures, atlas_created, returned, tried, ret>>
    /\ UNCHANGED blockVars

\* lines 280 and 285-293
Return ==
    /\ pc = "pack"
    /\ idx > Len(textures)
    /\ atlas_created' = TRUE
    /\ returned' = [texture_bounds |-> TextureBounds(texture_dict, to_dict(atlas, frames)),
                    width |-> AtlasWidth(atlas),
                    height |-> AtlasHeight(atlas)]
    /\ pc' = "done"
    /\ log' = log \o <<LogSuccess, LogFinished>>
    /\ UNCHANGED <<files, texture_dict, frames, textures, size, atlas, idx,
                   tried, ret, assigned>>
    /\ UNCHANGED blockVars

\* PackRegion.pack called on the root of a free-standing region
RegionPack ==
    /\ pc = "region"
    /\ \E p \in (DOMAIN frames) \ tried :
          LET a == PackRegion_pack(atlas.regions, frames, 1, p)
          IN /\ atlas' = [atlas EXCEPT !.regions = a.regions]
             /\ frames' = a.frames
             /\ assigned' = Setters(assigned, atlas.regions, a.regions)
             /\ tried' = tried \cup {p}
             /\ ret' = <<p, a.ret>>
    /\ UNCHANGED <<pc, files, texture_dict, textures, size, atlas_created, idx, log,
                   returned>>
    /\ UNCHANGED blockVars

Next == Start \/ NewAtlas \/ PackTexture \/ Return \/ RegionPack

Spec == Init /\ [][Next]_vars

\* create_atlas alone: a call runs on without waiting for anything, so a step that
\* can be taken is taken
NextDriver == Start \/ NewAtlas \/ PackTexture \/ Return

FairSpec ==
    /\ InitDriver
    /\ [][NextDriver]_vars
    /\ WF_vars(NextDriver)

\* ------------------------------------------------------------- BlockSelect
Chars == {"a", "b"}

Quote == "\""

\* the strs of at most n characters
Strs(n) == UNION {[1..k -> Chars] : k \in 0..n}

\* version.block.base_names(...): different, non-empty names in any order
NameLists ==
    UNION {{l \in [1..n -> Strs(MaxStr) \ {<<>>}] :
               \A j, k \in 1..n : l[j] = l[k] => j = k} : n \in 0..MaxNames}

\* search_str in bn, for two strs
Contains(search_str, bn) ==
    \E i \in 0..(Len(bn) - Len(search_str)) :
        SubSeq(bn, i + 1, i + Len(search_str)) = search_str

\* x in l, for a list l
InList(x, l) == \E k \in 1..Len(l) : l[k] = x

\* l.index(x)
ListIndex(l, x) ==
    (CHOOSE k \in 1..Len(l) : l[k] = x /\ \A j \in 1..(k - 1) : l[j] # x) - 1

\* f'"{search_str}"'
Quoted(search_str) == <<Quote>> \o search_str \o <<Quote>>

\* lines 206-208
FilteredNames(names, search_str) ==
    LET matching == SelectSeq(names, LAMBDA bn : Contains(search_str, bn))
    IN IF ~InList(search_str, matching)
       THEN <<Quoted(search_str)>> \o matching
       ELSE matching

\* lines 210-215
PreviousIndex(its, sel, names) ==
    IF sel # NOT_FOUND /\ InList(its[sel + 1], names)
    THEN ListIndex(names, its[sel + 1])
    ELSE 0

\* BlockSelect._update_block_name on a list box showing `its` with item `sel`
\* selected: the value returned and the list box afterwards
update_block_name(names, its, sel, search_str) ==
    LET new   == FilteredNames(names, search_str)
        index == PreviousIndex(its, sel, new)
    IN IF index # 0
       THEN [ret |-> FALSE, items |-> new, selection |-> index]
       ELSE IF InList(search_str, new)
       THEN [ret |-> TRUE, items |-> new, selection |-> ListIndex(new, search_str)]
       ELSE IF Len(new) >= 2
       THEN [ret |-> TRUE, items |-> new, selection |-> 1]
       ELSE [ret |-> TRUE, items |-> new, selection |-> 0]

\* no atlas is being built
NoCreateAtlas ==
    /\ pc = "block"
    /\ texture_dict = <<>>
    /\ files = <<>>
    /\ frames = <<>>
    /\ textures = <<>>
    /\ size = 0
    /\ atlas = NoAtlas
    /\ atlas_created = FALSE
    /\ idx = 0
    /\ log = <<>>
    /\ returned = NoReturn
    /\ tried = {}
    /\ ret = <<None, FALSE>>
    /\ assigned = <<>>

\* lines 99-101: the constructor fills the list box with the names
\* (_populate_block_name, nothing selected) and calls set_block_name(block_name)
InitBlock ==
    /\ NoCreateAtlas
    /\ \E names \in NameLists, block_name \in Strs(MaxStr) :
          \E u \in {update_block_name(names, names, NOT_FOUND, block_name)} :
             /\ block_names = names
             /\ items = u.items
             /\ selection = u.selection
             /\ search = block_name
             /\ update_ret = u.ret
    /\ posted = FALSE
    /\ event = "init"

\* lines 200-203: the text of the search control changed to search_str
on_search_change ==
    /\ pc = "block"
    /\ \E search_str \in Strs(MaxStr) :
          \E u \in {update_block_name(block_names, items, selection, search_str)} :
             /\ items' = u.items
             /\ selection' = u.selection
             /\ search' = search_str
             /\ update_ret' = u.ret
             /\ posted' = u.ret
    /\ event' = "search"
    /\ UNCHANGED block_names
    /\ UNCHANGED atlasVars

\* lines 173-176: set_block_name(block_name) called from outside; it posts nothing
set_block_name ==
    /\ pc = "block"
    /\ \E block_name \in Strs(MaxStr) :
          \E u \in {update_block_name(block_names, items, selection, block_name)} :
             /\ items' = u.items
             /\ selection' = u.selection
             /\ search' = block_name
             /\ update_ret' = u.ret
    /\ posted' = FALSE
    /\ event' = "set_block_name"
    /\ UNCHANGED block_names
    /\ UNCHANGED atlasVars

\* lines 168-171 with 173-176: the block_name setter
block_name_setter ==
    /\ pc = "block"
    /\ \E block_name \in Strs(MaxStr) :
          \E u \in {update_block_name(block_names, items, selection, block_name)} :
             /\ items' = u.items
             /\ selection' = u.selection
             /\ search' = block_name
             /\ update_ret' = u.ret
             /\ posted' = u.ret
    /\ event' = "set"
    /\ UNCHANGED block_names
    /\ UNCHANGED atlasVars

\* lines 195-198 with 186-193: a new namespace brings its names; SetItems leaves
\* nothing selected, and block_name = None is set_block_name("")
on_namespace_change ==
    /\ pc = "block"
    /\ \E names \in NameLists :
          \E u \in {update_block_name(names, names, NOT_FOUND, <<>>)} :
             /\ block_names' = names
             /\ items' = u.items
             /\ selection' = u.selection
             /\ update_ret' = u.ret
             /\ posted' = u.ret
    /\ search' = <<>>
    /\ event' = "namespace"
    /\ UNCHANGED atlasVars

\* line 102: the user picks item i of the list box
on_listbox ==
    /\ pc = "block"
    /\ \E i \in 0..(Len(items) - 1) :
          /\ i # selection
          /\ selection' = i
    /\ posted' = TRUE
    /\ event' = "listbox"
    /\ UNCHANGED <<block_names, items, search, update_ret>>
    /\ UNCHANGED atlasVars

NextBlock ==
    \/ on_search_change
    \/ set_block_name
    \/ block_name_setter
    \/ on_namespace_change
    \/ on_listbox

BlockSpec == InitBlock /\ [][NextBlock]_vars

\* ------------------------------------------------------------- properties
\* the records of the retry loop (lines 275 and 282) among what log.info recorded
attempts == SelectSeq(log, LAMBDA e : e.msg \in {"try", "small"})

\* the packables some region of the current tree holds: those for which pack
\* returned True on this tree
HeldSet == {p \in DOMAIN frames : HoldCount(atlas.regions, p) > 0}

Root == atlas.regions[1]

Apart(a, b) ==
    \/ a.x + a.width <= b.x
    \/ b.x + b.width <= a.x
    \/ a.y + a.height <= b.y
    \/ b.y + b.height <= a.y

\* C1: any two packed rectangles of one region tree occupy areas
\* [x, x+width) x [y, y+height) that do not intersect, after any sequence of pack
\* calls and in the atlas create_atlas returns.
NoOverlap ==
    \A p \in HeldSet : \A q \in HeldSet :
        p # q => Apart(frames[p], frames[q])

\* create_atlas has returned an atlas of three frames that needed a second attempt
NoOverlapWitness ==
    /\ pc = "done"
    /\ Cardinality(HeldSet) = 3
    /\ Len(attempts) = 3

\* C2: every packed rectangle lies inside the root region, and every region of the
\* tree has non-negative width and height and lies inside the root.
Containment ==
    /\ \A p \in HeldSet :
          /\ 0 <= frames[p].x
          /\ 0 <= frames[p].y
          /\ frames[p].x + frames[p].width <= Root.width
          /\ frames[p].y + frames[p].height <= Root.height
    /\ \A r \in DOMAIN atlas.regions :
          /\ atlas.regions[r].width >= 0
          /\ atlas.regions[r].height >= 0
          /\ Root.x <= atlas.regions[r].x
          /\ Root.y <= atlas.regions[r].y
          /\ atlas.regions[r].x + atlas.regions[r].width <= Root.x + Root.width
          /\ atlas.regions[r].y + atlas.regions[r].height <= Root.y + Root.height

\* a free-standing region that took two packables, refused a third, and has a
\* child region of no height
ContainmentWitness ==
    /\ pc = "region"
    /\ Cardinality(HeldSet) = 2
    /\ ret[1] # None /\ ~ret[2]
    /\ \E r \in DOMAIN atlas.regions : atlas.regions[r].height = 0

\* C8: a PackRegion.pack call that returns False leaves every region of the tree
\* and the rectangle's x and y as they were.
FailedPackNoEffect ==
    [][(pc = "region" /\ tried' # tried /\ ~ret'[2])
          => (atlas'.regions = atlas.regions /\ frames' = frames)]_vars

\* pack returned False on a tree that already holds two packables
FailedPackWitness ==
    /\ pc = "region"
    /\ ret[1] # None /\ ~ret[2]
    /\ Cardinality(HeldSet) >= 2
    /\ \A q \in HeldSet : q < ret[1]

\* ------------------------------------------------------------- create_atlas results
Keys == {texture_dict[k].key : k \in 1..Len(texture_dict)}

\* entry k of the mapping, its frame and its Texture share the index k
EntryOf(key) == CHOOSE k \in 1..Len(texture_dict) : texture_dict[k].key = key

\* a/b <= c/d for positive b, d
RatLe(p, q) == p[1] * q[2] <= q[1] * p[2]

\* the UV rectangles [u0, u1) x [v0, v1) do not intersect
UVApart(a, b) ==
    \/ RatLe(a[3], b[1])
    \/ RatLe(b[3], a[1])
    \/ RatLe(a[4], b[2])
    \/ RatLe(b[4], a[2])

\* (x/W, y/H, (x+w)/W, (y+min(h,w))/H) for the frame f in the returned atlas
UVOfFrame(f) ==
    << <<frames[f].x, returned.width>>,
       <<frames[f].y, returned.height>>,
       <<frames[f].x + frames[f].width, returned.width>>,
       <<frames[f].y + (IF frames[f].height <= frames[f].width
                        THEN frames[f].height ELSE frames[f].width),
         returned.height>> >>

\* C3: two keys that give the same path get two distinct, non-overlapping UV
\* entries, each describing the placement of the key's own frame.
DuplicatePathDistinctUV ==
    pc = "done" =>
        \A k1 \in Keys : \A k2 \in Keys :
            (k1 # k2 /\ texture_dict[EntryOf(k1)].path = texture_dict[EntryOf(k2)].path)
            => /\ returned.texture_bounds[k1] # returned.texture_bounds[k2]
               /\ UVApart(returned.texture_bounds[k1], returned.texture_bounds[k2])
               /\ returned.texture_bounds[k1] = UVOfFrame(EntryOf(k1))

\* the last pack call of create_atlas raised AtlasTooSmall
JustRaised == pc = "loop" /\ Len(attempts) > 0 /\ attempts[Len(attempts)] = LogSmall

\* C4: every texture in atlas.textures has all its frames placed in the atlas's
\* region tree, and after a pack call that raised AtlasTooSmall the failing texture
\* is not in atlas.textures.
TexturesAllPlaced ==
    /\ \A k \in 1..Len(atlas.textures) :
          \A j \in 1..Len(atlas.textures[k].frames) :
              atlas.textures[k].frames[j] \in HeldSet
    /\ JustRaised =>
          \A k \in 1..Len(atlas.textures) : atlas.textures[k] # textures[idx]

\* C5: when create_atlas returns, the atlas holds as many textures as the mapping
\* has keys and the UV table has exactly the mapping's keys.
Completeness ==
    pc = "done" =>
        /\ Len(atlas.textures) = Cardinality(Keys)
        /\ DOMAIN returned.texture_bounds = Keys

\* create_atlas returned for three keys, two of them giving the same path
CompletenessWitness ==
    /\ pc = "done"
    /\ Cardinality(Keys) = 3
    /\ Cardinality(PathsOf(texture_dict)) = 2

NumSmall(lg) == Cardinality({j \in 1..Len(lg) : lg[j].msg = "small"})

\* C6: a raise at size S makes the next attempt use a fresh empty atlas of side 2S,
\* the size changes at no other step, and the returned width and height are the
\* initial estimate times 2^(number of failed attempts).
RetryStep ==
    /\ (pc # "start") =>
          size' = (IF attempts' = Append(attempts, LogSmall) THEN 2 * size ELSE size)
    /\ (pc = "start") => size' = InitialSize(frames', textures')
    /\ (pc = "loop") =>
          /\ attempts' = Append(attempts, LogTry(size))
          /\ atlas' = [regions |-> <<PackRegion(0, 0, size, size)>>, textures |-> <<>>]
    /\ \A j \in 1..Len(attempts') :
          IF j % 2 = 1
          THEN attempts'[j] = LogTry(InitialSize(frames', textures') * Pow2((j - 1) \div 2))
          ELSE attempts'[j] = LogSmall
    /\ (pc' = "done") =>
          /\ returned'.width = InitialSize(frames', textures') * Pow2(NumSmall(attempts'))
          /\ returned'.height = returned'.width

RetryMonotone == [][pc # "region" => RetryStep]_vars

\* create_atlas returned after a failed attempt, at twice the first side
RetryWitness ==
    /\ pc = "done"
    /\ NumSmall(attempts) >= 1
    /\ returned.width = 2 * attempts[1].size

\* C7: to_dict gives every texture of the packed atlas the tuple
\* (x/W, y/H, (x+w)/W, (y+min(h,w))/H) of its first frame, every component in
\* [0,1], and create_atlas returns that tuple under the caller's key.
UVCorrect ==
    pc = "done" =>
        /\ \A k \in 1..Len(atlas.textures) :
              LET uv == to_dict(atlas, frames)[atlas.textures[k].name]
              IN /\ uv = UVOfFrame(atlas.textures[k].frames[1])
                 /\ \A c \in 1..4 : 0 <= uv[c][1] /\ uv[c][1] <= uv[c][2]
        /\ \A key \in Keys :
              returned.texture_bounds[key] = UVOfFrame(EntryOf(key))

NumTries(lg) == Cardinality({j \in 1..Len(lg) : lg[j].msg = "try"})

\* C9 as stated: over a whole create_atlas run, retries included, the x, y of each
\* frame are assigned by exactly one successful pack and a placed frame never moves.
AssignedOnceOverRun ==
    [][\A f \in DOMAIN frames' :
          /\ assigned'[f] <= 1
          /\ (pc' = "done") => assigned'[f] = 1
          /\ (f \in DOMAIN frames /\ assigned[f] >= 1)
                => (frames'[f].x = frames[f].x /\ frames'[f].y = frames[f].y)]_vars

\* C9 amended: within one attempt (one atlas, one region tree) a frame is placed by
\* at most one successful pack and then keeps its place and position until the
\* attempt ends; every attempt places the frames anew, so over a run a frame is
\* assigned at most once per attempt, and exactly once in the atlas returned.
AssignedOncePerAttempt ==
    [][\A f \in DOMAIN frames' :
          /\ HoldCount(atlas'.regions, f) <= 1
          /\ (pc' = "done") => HoldCount(atlas'.regions, f) = 1
          /\ (f \in HeldSet /\ pc # "loop")
                => /\ HoldCount(atlas'.regions, f) = 1
                   /\ frames'[f].x = frames[f].x
                   /\ frames'[f].y = frames[f].y
          /\ assigned'[f] <= (IF pc' = "region" THEN 1 ELSE NumTries(attempts'))]_vars

\* create_atlas returned an atlas in which a frame away from the origin had been
\* placed in the failed attempt as well
AssignedTwiceWitness ==
    /\ pc = "done"
    /\ \E f \in DOMAIN frames :
          /\ assigned[f] = 2
          /\ frames[f].x + frames[f].y > 0

\* C10: a raise of AtlasTooSmall always leads back to the head of the retry loop,
\* and the atlas create_atlas returns is the one of the last attempt, in which every
\* texture was packed: it lists all textures, its tree holds every frame exactly
\* once and nothing else, and each frame's x, y is the origin of its region.
NoPartialResults ==
    /\ (Len(attempts) > 0 /\ attempts[Len(attempts)] = LogSmall) => (pc = "loop" /\ ~atlas_created)
    /\ pc = "done" =>
          /\ atlas_created
          /\ attempts[Len(attempts)] = LogTry(size)
          /\ AtlasWidth(atlas) = size /\ AtlasHeight(atlas) = size
          /\ returned.width = size /\ returned.height = size
          /\ atlas.textures = textures
          /\ Len(atlas.regions) = 1 + 2 * Len(frames)
          /\ Len(get_all_packables(atlas.regions, 1)) = Len(frames)
          /\ \A f \in DOMAIN frames :
                /\ \E k \in 1..Len(frames) : get_all_packables(atlas.regions, 1)[k] = f
                /\ \E r \in DOMAIN atlas.regions :
                      /\ atlas.regions[r].packable = f
                      /\ frames[f].x = atlas.regions[r].x
                      /\ frames[f].y = atlas.regions[r].y

\* create_atlas returned three textures after an attempt that was abandoned
NoPartialWitness ==
    /\ pc = "done"
    /\ Len(textures) = 3
    /\ NumSmall(attempts) >= 1

\* ------------------------------------------------------------- C11 .. C18
InDriver == pc \in {"loop", "pack", "done"}

\* C11: on every attempt the atlas side is at least every frame's width and height,
\* the first texture in sorted order is placed at (0,0) and no attempt fails on its
\* first texture; the three squares of sides 64, 32 and 16 are packed by the first
\* attempt, with the 64x64 frame at (0,0).
SizeFloor ==
    /\ InDriver =>
          /\ \A f \in DOMAIN frames : size >= frames[f].width /\ size >= frames[f].height
          /\ \A j \in 1..Len(attempts) :
                attempts[j].msg = "try" =>
                    \A f \in DOMAIN frames :
                        attempts[j].size >= frames[f].width /\ attempts[j].size >= frames[f].height
          /\ JustRaised => idx >= 2
          /\ (Len(atlas.textures) >= 1) =>
                /\ atlas.textures[1] = textures[1]
                /\ atlas.regions[1].packable = textures[1].frames[1]
                /\ frames[textures[1].frames[1]].x = 0
                /\ frames[textures[1].frames[1]].y = 0
    /\ (pc = "done" /\ texture_dict = ScenarioDict /\ files = ScenarioFiles) =>
          /\ attempts = <<LogTry(size)>>
          /\ size >= 64
          /\ frames[1].width = 64 /\ frames[1].x = 0 /\ frames[1].y = 0
          /\ atlas.regions[1].packable = 1
          /\ returned.texture_bounds[1] = << <<0, size>>, <<0, size>>, <<64, size>>, <<64, size>> >>

\* create_atlas returned for the three squares
SizeFloorWitness ==
    /\ pc = "done"
    /\ files = ScenarioFiles
    /\ Len(atlas.textures) = 3

Inside(a, b) ==
    /\ b.x <= a.x /\ a.x + a.width <= b.x + b.width
    /\ b.y <= a.y /\ a.y + a.height <= b.y + b.height

\* what one placement must look like: the empty region R, the packable P after the
\* call, and the two children s1, s2 the call created
SplitOK(R, P, s1, s2) ==
    /\ P.x = R.x /\ P.y = R.y
    /\ s1.x = R.x /\ s1.y = R.y + P.height
    /\ s1.width = P.width /\ s1.height = R.height - P.height
    /\ s2.x = R.x + P.width /\ s2.y = R.y
    /\ s2.width = R.width - P.width /\ s2.height = R.height
    /\ s1.packable = None /\ s1.sub1 = None /\ s1.sub2 = None
    /\ s2.packable = None /\ s2.sub1 = None /\ s2.sub2 = None
    /\ Apart(P, s1) /\ Apart(P, s2) /\ Apart(s1, s2)
    /\ Inside(P, R) /\ Inside(s1, R) /\ Inside(s2, R)
    /\ s1.width >= 0 /\ s1.height >= 0 /\ s2.width >= 0 /\ s2.height >= 0
    /\ P.width * P.height + s1.width * s1.height + s2.width * s2.height
          = R.width * R.height

\* C12: a pack that places a rectangle (w, h) in an empty region (x, y, W, H) sets
\* the rectangle to (x, y), creates sub1 = (x, y+h, w, H-h) and sub2 = (x+w, y, W-w, H),
\* and the rectangle, sub1 and sub2 are pairwise disjoint and cover the region.
GuillotineSplit ==
    [][(pc \in {"pack", "region"}) =>
          \A r \in DOMAIN atlas.regions :
              (atlas.regions[r].packable = None /\ atlas'.regions[r].packable # None)
              => /\ atlas'.regions[r].sub1 \in DOMAIN atlas'.regions
                 /\ atlas'.regions[r].sub2 \in DOMAIN atlas'.regions
                 /\ atlas'.regions[r].sub1 # atlas'.regions[r].sub2
                 /\ atlas'.regions[r].sub1 \notin DOMAIN atlas.regions
                 /\ atlas'.regions[r].sub2 \notin DOMAIN atlas.regions
                 /\ frames'[atlas'.regions[r].packable].width
                       = frames[atlas'.regions[r].packable].width
                 /\ frames'[atlas'.regions[r].packable].height
                       = frames[atlas'.regions[r].packable].height
                 /\ SplitOK(atlas.regions[r],
                            frames'[atlas'.regions[r].packable],
                            atlas'.regions[atlas'.regions[r].sub1],
                            atlas'.regions[atlas'.regions[r].sub2])]_vars

\* a free-standing region whose root was split into two children of positive area,
\* the second of which was split again
GuillotineWitness ==
    /\ pc = "region"
    /\ Root.packable # None
    /\ atlas.regions[Root.sub1].width * atlas.regions[Root.sub1].height > 0
    /\ atlas.regions[Root.sub2].width * atlas.regions[Root.sub2].height > 0
    /\ atlas.regions[Root.sub2].packable # None

\* a region has both children or none, and has them exactly when it holds a
\* packable; no region is the child of two regions or of itself
RegionShape ==
    \A r \in DOMAIN atlas.regions :
        LET R == atlas.regions[r]
        IN /\ (R.packable # None) <=> (R.sub1 # None /\ R.sub2 # None)
           /\ (R.packable = None) => (R.sub1 = None /\ R.sub2 = None)
           /\ (R.packable # None) =>
                 /\ R.packable \in DOMAIN frames
                 /\ R.sub1 \in DOMAIN atlas.regions /\ R.sub2 \in DOMAIN atlas.regions
                 /\ R.sub1 # R.sub2 /\ R.sub1 > r /\ R.sub2 > r
                 /\ \A q \in DOMAIN atlas.regions :
                       q # r => /\ atlas.regions[q].sub1 \notin {R.sub1, R.sub2}
                                /\ atlas.regions[q].sub2 \notin {R.sub1, R.sub2}

\* C13: a region holds at most one rectangle and has its two children if and only
\* if it holds one; a later pack call on the tree never replaces the rectangle of
\* a region, re-creates its children, or moves or resizes a region.
RegionsKept ==
    (pc \in {"pack", "region"}) =>
        \A r \in DOMAIN atlas.regions :
            /\ r \in DOMAIN atlas'.regions
            /\ atlas'.regions[r].x = atlas.regions[r].x
            /\ atlas'.regions[r].y = atlas.regions[r].y
            /\ atlas'.regions[r].width = atlas.regions[r].width
            /\ atlas'.regions[r].height = atlas.regions[r].height
            /\ (atlas.regions[r].packable # None)
                  => atlas'.regions[r] = atlas.regions[r]

RegionTreeInvariant == []RegionShape /\ [][RegionsKept]_vars

\* three pack calls in a row succeeded on one free-standing tree
RegionTreeWitness ==
    /\ pc = "region"
    /\ Cardinality(HeldSet) = 3
    /\ Len(atlas.regions) = 7

\* the regions of the subtree of r in pre-order, sub1's subtree before sub2's
RECURSIVE PreOrder(_, _)
PreOrder(rs, r) ==
    IF rs[r].packable = None THEN <<r>>
    ELSE <<r>> \o PreOrder(rs, rs[r].sub1) \o PreOrder(rs, rs[r].sub2)

\* positions in the pre-order of the tree of empty regions at least as wide and as
\* high as the packable pk
Fitting(rs, pk) ==
    {k \in 1..Len(PreOrder(rs, 1)) :
        /\ rs[PreOrder(rs, 1)[k]].packable = None
        /\ rs[PreOrder(rs, 1)[k]].width >= pk.width
        /\ rs[PreOrder(rs, 1)[k]].height >= pk.height}

\* the outcome of one pack call of packable p that answered `answer`
FirstFitStep(p, answer) ==
    LET cand == Fitting(atlas.regions, frames[p])
    IN /\ answer = (cand # {})
       /\ (cand = {}) => atlas'.regions = atlas.regions
       /\ (cand # {}) =>
             LET first == PreOrder(atlas.regions, 1)[CHOOSE k \in cand : \A j \in cand : k <= j]
             IN /\ atlas'.regions[first].packable = p
                /\ \A r \in DOMAIN atlas.regions :
                      r # first => atlas'.regions[r] = atlas.regions[r]
                /\ Len(atlas'.regions) = Len(atlas.regions) + 2

\* C14: pack places the rectangle in the first empty region, in pre-order with
\* sub1's subtree before sub2's, that is wide and high enough, leaves every other
\* region untouched, and returns False exactly when no empty region fits.
FirstFit ==
    [][/\ (pc = "region" /\ tried' # tried) => FirstFitStep(ret'[1], ret'[2])
       /\ (pc = "pack" /\ idx <= Len(textures))
             => FirstFitStep(textures[idx].frames[1], pc' = "pack")]_vars

\* the last pack went into the root's sub2 after the root's empty sub1, which has
\* room for something, turned it down
FirstFitWitness ==
    /\ pc = "region"
    /\ ret[1] # None /\ ret[2]
    /\ atlas.regions[Root.sub2].packable = ret[1]
    /\ atlas.regions[Root.sub1].packable = None
    /\ atlas.regions[Root.sub1].width * atlas.regions[Root.sub1].height > 0

\* 2*(width+height) of the first frame of textures[k]
PerimeterAt(k) ==
    2 * (frames[textures[k].frames[1]].width + frames[textures[k].frames[1]].height)

\* C15: textures are packed in non-increasing order of the first frame's perimeter,
\* textures of equal perimeter in the order of the input mapping, and
\* atlas.textures lists them in that order.
PackOrder ==
    InDriver =>
        /\ Len(textures) = Len(texture_dict)
        /\ {textures[k].frames[1] : k \in 1..Len(textures)} = 1..Len(texture_dict)
        /\ \A k \in 1..Len(textures) :
              /\ Len(textures[k].frames) = 1
              /\ textures[k].name = texture_dict[textures[k].frames[1]].path
        /\ \A i \in 1..Len(textures) : \A j \in 1..Len(textures) :
              i < j => /\ PerimeterAt(i) >= PerimeterAt(j)
                       /\ (PerimeterAt(i) = PerimeterAt(j))
                             => textures[i].frames[1] < textures[j].frames[1]
        /\ Len(atlas.textures) <= Len(textures)
        /\ atlas.textures = SubSeq(textures, 1, Len(atlas.textures))
        /\ (pc = "pack") => Len(atlas.textures) = idx - 1
        /\ JustRaised => Len(atlas.textures) = idx
        /\ (pc = "done") => atlas.textures = textures

\* create_atlas returned after moving a later entry of the mapping to the front
\* and keeping two entries of equal perimeter in their order
PackOrderWitness ==
    /\ pc = "done"
    /\ Len(textures) = 3
    /\ textures[1].frames[1] # 1
    /\ \E i \in 1..2 : PerimeterAt(i) = PerimeterAt(i + 1)

\* sum of width*height over frames 1..n
RECURSIVE AreaUpTo(_)
AreaUpTo(n) ==
    IF n = 0 THEN 0 ELSE frames[n].width * frames[n].height + AreaUpTo(n - 1)

TotalArea == AreaUpTo(Len(frames))

\* P is the smallest power of two with P >= ceil(sqrt(area)), that is with P*P >= area
SmallestPowerOfTwo(P, area) ==
    \E e \in 0..16 :
        /\ P = Pow2(e)
        /\ P * P >= area
        /\ (e > 0) => (Pow2(e - 1) * Pow2(e - 1) < area)

\* C16: for a non-empty input the first attempted side is
\* max(maxFrameHeight, maxFrameWidth, P), P the smallest power of two that is
\* >= ceil(sqrt(total area of the frames)).
FirstSide ==
    (InDriver /\ Len(texture_dict) >= 1 /\ Len(attempts) >= 1) =>
        \E P \in 1..attempts[1].size :
            /\ SmallestPowerOfTwo(P, TotalArea)
            /\ attempts[1] = LogTry(attempts[1].size)
            /\ attempts[1].size >= P
            /\ \A f \in DOMAIN frames :
                  attempts[1].size >= frames[f].width /\ attempts[1].size >= frames[f].height
            /\ \/ attempts[1].size = P
               \/ \E f \in DOMAIN frames :
                     attempts[1].size = frames[f].width \/ attempts[1].size = frames[f].height

\* a first side that is the exact square root of the total area, a power of two
\* larger than every frame
FirstSideWitness ==
    /\ pc = "pack"
    /\ Len(attempts) = 1
    /\ attempts[1].size * attempts[1].size = TotalArea
    /\ \A f \in DOMAIN frames :
          attempts[1].size > frames[f].width /\ attempts[1].size > frames[f].height

RECURSIVE WidthUpTo(_)
WidthUpTo(n) == IF n = 0 THEN 0 ELSE frames[n].width + WidthUpTo(n - 1)

SumWidths == WidthUpTo(Len(frames))

\* no attempt whose side is at least the sum of all frame widths and the largest
\* frame height is abandoned
WideEnoughSucceeds ==
    \A j \in 2..Len(attempts) :
        (attempts[j].msg = "small") =>
            \/ attempts[j - 1].size < SumWidths
            \/ \E f \in DOMAIN frames : attempts[j - 1].size < frames[f].height

\* C17: for every input the retry loop reaches an attempt that packs every texture,
\* at the latest once the side is at least the sum of the frame widths and the
\* largest frame height, and create_atlas returns.
Terminates ==
    /\ (pc = "start") ~> (pc = "done")
    /\ []WideEnoughSucceeds

\* create_atlas returned after abandoning a side below the sum of the widths, at
\* a side that is at least that sum
TerminatesWitness ==
    /\ pc = "done"
    /\ NumSmall(attempts) >= 1
    /\ attempts[1].size < SumWidths
    /\ returned.width >= SumWidths

\* the packables held by the regions of the subtree of r, in pre-order of the regions
HeldInPreOrder(rs, r) ==
    LET s == SelectSeq(PreOrder(rs, r), LAMBDA q : rs[q].packable # None)
    IN [k \in 1..Len(s) |-> rs[s[k]].packable]

AllOfRoot == IF atlas.regions = <<>> THEN <<>> ELSE get_all_packables(atlas.regions, 1)

SeqSet(s) == {s[k] : k \in 1..Len(s)}

\* every region's list is the packables its subtree holds, in pre-order, each once
PackablesListed ==
    \A r \in DOMAIN atlas.regions :
        LET g == get_all_packables(atlas.regions, r)
        IN /\ g = HeldInPreOrder(atlas.regions, r)
           /\ \A j, k \in 1..Len(g) : g[j] = g[k] => j = k
           /\ atlas.regions[r].packable # None => g[1] = atlas.regions[r].packable

\* a pack call that returned True adds its packable to the root's list and nothing
\* else; one that returned False, or raised, leaves the list as it was; a new atlas
\* starts with the empty list
PackablesStep ==
    /\ (pc = "region" /\ tried' # tried) =>
          IF ret'[2]
          THEN /\ SeqSet(AllOfRoot') = SeqSet(AllOfRoot) \cup {ret'[1]}
               /\ ret'[1] \notin SeqSet(AllOfRoot)
               /\ Len(AllOfRoot') = Len(AllOfRoot) + 1
          ELSE AllOfRoot' = AllOfRoot
    /\ (pc = "pack" /\ idx' = idx + 1) =>
          /\ SeqSet(AllOfRoot') = SeqSet(AllOfRoot) \cup {textures[idx].frames[1]}
          /\ textures[idx].frames[1] \notin SeqSet(AllOfRoot)
          /\ Len(AllOfRoot') = Len(AllOfRoot) + 1
    /\ (pc = "pack" /\ pc' = "loop") => AllOfRoot' = AllOfRoot
    /\ (pc = "loop" /\ pc' = "pack") => AllOfRoot' = <<>>

\* C18: get_all_packables on a region returns exactly the rectangles for which pack
\* on that region's subtree returned True, each exactly once, in pre-order (the
\* region's own, then sub1's, then sub2's), after any sequence of successful and
\* failed pack calls.
AllPackables ==
    /\ []PackablesListed
    /\ [][PackablesStep]_vars

\* three pack calls on one region returned True, and both sub-regions of the root
\* hold a packable
AllPackablesWitness ==
    /\ pc = "region"
    /\ Len(AllOfRoot) = 3
    /\ atlas.regions[Root.sub1].packable # None
    /\ atlas.regions[Root.sub2].packable # None
    /\ AllOfRoot[2] = atlas.regions[Root.sub1].packable
    /\ AllOfRoot[3] = atlas.regions[Root.sub2].packable

\* the list the list box is to show for a search: the block names containing the
\* search string, after the quoted search string when that is no block name
ShownFor(names, search_str) ==
    LET matching == SelectSeq(names, LAMBDA bn : Contains(search_str, bn))
    IN IF InList(search_str, names) THEN matching ELSE <<Quoted(search_str)>> \o matching

\* a step of _update_block_name, called for a changed search text, by
\* set_block_name or by the block_name setter
UpdateStep == event' \in {"search", "set", "set_block_name"}

\* C19: _update_block_name(search): if the string selected before the call is still
\* in the new filtered list, it stays selected and the call returns False (no
\* block-change event is posted); otherwise an exact match of the search string is
\* selected, else item 1 if the list has at least two items, else item 0, and the
\* call returns True; exactly one item is selected afterwards.
SelectionKept ==
    [][UpdateStep =>
          /\ items' = ShownFor(block_names, search')
          /\ selection' \in 0..(Len(items') - 1)
          /\ IF selection # NOT_FOUND /\ InList(items[selection + 1], items')
             THEN /\ items'[selection' + 1] = items[selection + 1]
                  /\ update_ret' = FALSE
                  /\ posted' = FALSE
             ELSE /\ update_ret' = TRUE
                  /\ IF InList(search', items')
                     THEN items'[selection' + 1] = search'
                     ELSE IF Len(items') >= 2
                          THEN selection' = 1
                          ELSE selection' = 0]_vars

====
